---- MODULE Spec2Model ----
(***************************************************************************)
(* Model of server.js: the in-memory student / course store, its mutation  *)
(* resolvers, the get-by-id queries and the two relationship resolvers.    *)
(*                                                                         *)
(* JavaScript values are modelled as tagged records so that undefined,     *)
(* null, strings, numbers and booleans stay distinct.  Identifiers are     *)
(* the decimal strings produced by String(n), modelled as digit sequences. *)
(***************************************************************************)
EXTENDS Integers, Sequences, FiniteSets, TLC

VARIABLES students, courses, enrollments, updates, last

vars == <<students, courses, enrollments, updates, last>>

(* ------------------------------ bounds -------------------------------- *)

\* addStudent is explored while students holds fewer records than this
MaxStudents == 2

\* addCourse is explored while courses holds fewer records than this
MaxCourses == 2

\* addStudent and addCourse are explored while the store holds fewer records than this
MaxRecords == 4

\* number of updateStudent / updateCourse calls explored in one behaviour
MaxUpdates == 1

(* --------------------------- JavaScript values ------------------------ *)

Undefined == [tag |-> "undefined"]

Null == [tag |-> "null"]

Str(s) == [tag |-> "string", v |-> s]

Num(n) == [tag |-> "number", v |-> n]

Bool(b) == [tag |-> "boolean", v |-> b]

\* String(n) for a non-negative integer: its decimal digits
RECURSIVE String(_)
String(n) == IF n < 10 THEN <<n>> ELSE String(n \div 10) \o <<n % 10>>

\* a || null
OrNull(a) == IF a \in {Undefined, Null, Str(""), Num(0), Bool(FALSE)} THEN Null ELSE a

(* ------------------------------ sequences ----------------------------- *)

\* Array.prototype.filter is SelectSeq of the Sequences module.

\* Array.prototype.includes
includes(arr, x) == \E i \in 1..Len(arr) : arr[i] = x

\* Array.prototype.findIndex on the id field; 0 stands for JavaScript's -1,
\* positions are 1-based
findIndex(arr, id) ==
    IF \E i \in 1..Len(arr) : arr[i].id = id
    THEN CHOOSE i \in 1..Len(arr) :
            /\ arr[i].id = id
            /\ \A j \in 1..(i - 1) : arr[j].id # id
    ELSE 0

\* Array.prototype.find on the id field
find(arr, id) == IF findIndex(arr, id) = 0 THEN Undefined ELSE arr[findIndex(arr, id)]

(* ------------------------------ seed data ----------------------------- *)

SeedStudents ==
    << [id |-> <<1>>, name |-> Str("Ahmed Hassan"), email |-> Str("ahmed@iti.edu"),
        age |-> Num(22), major |-> Str("Computer Science")],
       [id |-> <<2>>, name |-> Str("Fatma Ali"), email |-> Str("fatma@iti.edu"),
        age |-> Num(21), major |-> Str("Information Systems")] >>

SeedCourses ==
    << [id |-> <<1>>, title |-> Str("Data Structures"), code |-> Str("CS201"),
        credits |-> Num(3), instructor |-> Str("Dr. Mohamed")],
       [id |-> <<2>>, title |-> Str("Database Systems"), code |-> Str("CS301"),
        credits |-> Num(4), instructor |-> Str("Dr. Sarah")] >>

\* the numeric keys 1 and 2 of the object literal are the property names "1", "2"
SeedEnrollments == (String(1) :> <<String(1), String(2)>>) @@ (String(2) :> <<String(2)>>)

\* the resolver that ran last, and the value it returned
returned(op, ret) == [op |-> op, ret |-> ret]

Init ==
    /\ students = SeedStudents
    /\ courses = SeedCourses
    /\ enrollments = SeedEnrollments
    /\ updates = 0
    /\ last = returned("start", Undefined)

(* ------------------------------- queries ------------------------------ *)

\* Query.getStudent
getStudent(id) == find(students, id)

\* Query.getCourse
getCourse(id) == find(courses, id)

\* enrollments[key] || []
entryOrEmpty(enr, key) == IF key \in DOMAIN enr THEN enr[key] ELSE <<>>

\* Student.courses, reading the given courses and enrollment mapping
Student_courses_in(parent, crs, enr) ==
    LET studentCourseIds == entryOrEmpty(enr, parent.id)
    IN  SelectSeq(crs, LAMBDA course : includes(studentCourseIds, course.id))

\* Student.courses
Student_courses(parent) == Student_courses_in(parent, courses, enrollments)

\* Course.students, reading the given students and enrollment mapping
Course_students_in(parent, sts, enr) ==
    LET enrolledStudentIds == {studentId \in DOMAIN enr : includes(enr[studentId], parent.id)}
    IN  SelectSeq(sts, LAMBDA student : student.id \in enrolledStudentIds)

\* Course.students
Course_students(parent) == Course_students_in(parent, students, enrollments)

(* --------------------------- resolver inputs -------------------------- *)

\* ids a caller may pass: every id the bounded collections can hold, and one more
StudentIdArgs == {String(n) : n \in 1..(MaxStudents + 1)}

CourseIdArgs == {String(n) : n \in 1..(MaxCourses + 1)}

\* required arguments of addStudent / addCourse
NameArgs == {Str("Omar Samir")}

EmailArgs == {Str("omar@iti.edu")}

AgeArgs == {Num(23)}

TitleArgs == {Str("Operating Systems")}

CodeArgs == {Str("CS401")}

CreditsArgs == {Num(2)}

InstructorArgs == {Str("Dr. Ali")}

MajorValues == {Str("Software Engineering")}

\* the optional major of addStudent: omitted, empty, or a value
MajorArgs == {Undefined, Str("")} \cup MajorValues

\* an optional argument of an update: omitted, explicitly null, or a value
Optional(values) == {Undefined, Null} \cup values

(* ------------------------------ mutations ----------------------------- *)

\* String(collection.length + 1)
newId(arr) == String(Len(arr) + 1)

\* enrollments[key] = value
setEntry(enr, key, value) ==
    [k \in DOMAIN enr \cup {key} |-> IF k = key THEN value ELSE enr[k]]

\* faulty variant of deleteEntry: the entry of a deleted student is kept
deleteEntry_kept(enr, key) == enr

\* delete enrollments[key]
deleteEntry(enr, key) == [k \in DOMAIN enr \ {key} |-> enr[k]]

\* collection.filter((r) => r.id !== id)
removeById(arr, id) == SelectSeq(arr, LAMBDA r : r.id # id)

\* faulty variant of removed: <= in place of <
removed_orSame(arr, initialLength) == Len(arr) <= initialLength

\* collection.length < initialLength
removed(arr, initialLength) == Len(arr) < initialLength

\* faulty variant of assignIfProvided: if (arg) in place of if (arg !== undefined)
assignIfProvided_truthy(current, arg) == IF OrNull(arg) # Null THEN arg ELSE current

\* if (arg !== undefined) record.field = arg
assignIfProvided(current, arg) == IF arg # Undefined THEN arg ELSE current

\* faulty variant of scrubCourse: the entries are left as they are
scrubCourse_skipped(enr, id) == enr

\* the forEach of deleteCourse: drop the course id from every entry
scrubCourse(enr, id) ==
    [studentId \in DOMAIN enr |-> SelectSeq(enr[studentId], LAMBDA courseId : courseId # id)]

\* faulty variant of enrollRejected: the course is not looked at
enrollRejected_studentOnly(student, course) == student = Undefined

\* if (!student || !course) return null
enrollRejected(student, course) == student = Undefined \/ course = Undefined

\* !enrollments[studentId]: the student has no entry (an empty array is truthy)
entryMissing(enr, studentId) == studentId \notin DOMAIN enr

\* faulty variant of withoutCourse: === in place of !==
withoutCourse_inverted(list, courseId) == SelectSeq(list, LAMBDA id : id = courseId)

\* list.filter((id) => id !== courseId)
withoutCourse(list, courseId) == SelectSeq(list, LAMBDA id : id # courseId)

\* faulty variant of pushIfAbsent: the membership test is missing
pushIfAbsent_always(list, courseId) == Append(list, courseId)

\* if (!list.includes(courseId)) list.push(courseId)
pushIfAbsent(list, courseId) == IF ~includes(list, courseId) THEN Append(list, courseId) ELSE list

addStudent(name, email, age, major) ==
    LET newStudent == [id |-> newId(students), name |-> name, email |-> email,
                       age |-> age, major |-> OrNull(major)]
    IN  /\ Len(students) < MaxStudents
        /\ Len(students) + Len(courses) < MaxRecords
        /\ students' = Append(students, newStudent)
        /\ enrollments' = setEntry(enrollments, newStudent.id, <<>>)
        /\ last' = returned("addStudent", newStudent)
        /\ UNCHANGED <<courses, updates>>

updateStudent(id, name, email, age, major) ==
    LET studentIndex == findIndex(students, id)
        student == [students[studentIndex] EXCEPT
                        !.name = assignIfProvided(@, name),
                        !.email = assignIfProvided(@, email),
                        !.age = assignIfProvided(@, age),
                        !.major = assignIfProvided(@, major)]
    IN  /\ updates < MaxUpdates
        /\ updates' = updates + 1
        /\ IF studentIndex = 0
           THEN /\ students' = students
                /\ last' = returned("updateStudent", Null)
           ELSE /\ students' = [students EXCEPT ![studentIndex] = student]
                /\ last' = returned("updateStudent", student)
        /\ UNCHANGED <<courses, enrollments>>

deleteStudent(id) ==
    LET initialLength == Len(students)
        remaining == removeById(students, id)
    IN  /\ students' = remaining
        /\ enrollments' = deleteEntry(enrollments, id)
        /\ last' = returned("deleteStudent", Bool(removed(remaining, initialLength)))
        /\ UNCHANGED <<courses, updates>>

addCourse(title, code, credits, instructor) ==
    LET newCourse == [id |-> newId(courses), title |-> title, code |-> code,
                      credits |-> credits, instructor |-> instructor]
    IN  /\ Len(courses) < MaxCourses
        /\ Len(students) + Len(courses) < MaxRecords
        /\ courses' = Append(courses, newCourse)
        /\ last' = returned("addCourse", newCourse)
        /\ UNCHANGED <<students, enrollments, updates>>

updateCourse(id, title, code, credits, instructor) ==
    LET courseIndex == findIndex(courses, id)
        course == [courses[courseIndex] EXCEPT
                        !.title = assignIfProvided(@, title),
                        !.code = assignIfProvided(@, code),
                        !.credits = assignIfProvided(@, credits),
                        !.instructor = assignIfProvided(@, instructor)]
    IN  /\ updates < MaxUpdates
        /\ updates' = updates + 1
        /\ IF courseIndex = 0
           THEN /\ courses' = courses
                /\ last' = returned("updateCourse", Null)
           ELSE /\ courses' = [courses EXCEPT ![courseIndex] = course]
                /\ last' = returned("updateCourse", course)
        /\ UNCHANGED <<students, enrollments>>

deleteCourse(id) ==
    LET initialLength == Len(courses)
        remaining == removeById(courses, id)
    IN  /\ courses' = remaining
        /\ enrollments' = scrubCourse(enrollments, id)
        /\ last' = returned("deleteCourse", Bool(removed(remaining, initialLength)))
        /\ UNCHANGED <<students, updates>>

\* the value enrollStudent returns
enrollReturn(studentId, courseId) ==
    LET student == find(students, studentId)
        course == find(courses, courseId)
    IN  IF enrollRejected(student, course) THEN Null ELSE student

\* the enrollment mapping enrollStudent makes of enr
enrollResult_of(enr, studentId, courseId) ==
    LET student == find(students, studentId)
        course == find(courses, courseId)
        entry == IF entryMissing(enr, studentId) THEN <<>> ELSE enr[studentId]
    IN  IF enrollRejected(student, course) THEN enr
        ELSE setEntry(enr, studentId, pushIfAbsent(entry, courseId))

\* the enrollment mapping enrollStudent leaves behind
enrollResult(studentId, courseId) == enrollResult_of(enrollments, studentId, courseId)

enrollStudent(studentId, courseId) ==
    /\ enrollments' = enrollResult(studentId, courseId)
    /\ last' = returned("enrollStudent", enrollReturn(studentId, courseId))
    /\ UNCHANGED <<students, courses, updates>>

\* the value unenrollStudent returns
unenrollReturn(studentId, courseId) ==
    LET student == find(students, studentId)
    IN  IF student = Undefined \/ entryMissing(enrollments, studentId) THEN Null ELSE student

\* the enrollment mapping unenrollStudent leaves behind
unenrollResult(studentId, courseId) ==
    IF unenrollReturn(studentId, courseId) = Null THEN enrollments
    ELSE setEntry(enrollments, studentId, withoutCourse(enrollments[studentId], courseId))

unenrollStudent(studentId, courseId) ==
    /\ enrollments' = unenrollResult(studentId, courseId)
    /\ last' = returned("unenrollStudent", unenrollReturn(studentId, courseId))
    /\ UNCHANGED <<students, courses, updates>>

(* ---------------------------- specifications -------------------------- *)

\* The store under the six mutations that add or remove a record or write the
\* enrollment mapping.  updateStudent and updateCourse keep every id, the
\* order of the records and the enrollment mapping (C3_PartialUpdate, checked
\* under SpecUpdate), so they lead to no other ids or enrollments than these.
Next ==
    \/ \E name \in NameArgs, email \in EmailArgs, age \in AgeArgs :
          addStudent(name, email, age, Undefined)
    \/ \E id \in StudentIdArgs : deleteStudent(id)
    \/ \E title \in TitleArgs, code \in CodeArgs, credits \in CreditsArgs,
          instructor \in InstructorArgs :
          addCourse(title, code, credits, instructor)
    \/ \E id \in CourseIdArgs : deleteCourse(id)
    \/ \E studentId \in StudentIdArgs, courseId \in CourseIdArgs :
          enrollStudent(studentId, courseId)
    \/ \E studentId \in StudentIdArgs, courseId \in CourseIdArgs :
          unenrollStudent(studentId, courseId)

Spec == Init /\ [][Next]_vars

\* The records under addition, deletion and update, each optional argument of
\* an update being omitted, null or a value; at most MaxUpdates updates.
NextUpdate ==
    \/ \E name \in NameArgs, email \in EmailArgs, age \in AgeArgs, major \in MajorArgs :
          addStudent(name, email, age, major)
    \/ \E id \in StudentIdArgs, name \in Optional(NameArgs), email \in Optional(EmailArgs),
          age \in Optional(AgeArgs), major \in Optional(MajorValues) :
          updateStudent(id, name, email, age, major)
    \/ \E id \in StudentIdArgs : deleteStudent(id)
    \/ \E title \in TitleArgs, code \in CodeArgs, credits \in CreditsArgs,
          instructor \in InstructorArgs :
          addCourse(title, code, credits, instructor)
    \/ \E id \in CourseIdArgs, title \in Optional(TitleArgs), code \in Optional(CodeArgs),
          credits \in Optional(CreditsArgs), instructor \in Optional(InstructorArgs) :
          updateCourse(id, title, code, credits, instructor)
    \/ \E id \in CourseIdArgs : deleteCourse(id)

SpecUpdate == Init /\ [][NextUpdate]_vars

(* -------------------------------- claims ------------------------------ *)

\* the ids held by a collection, and whether they are pairwise distinct
idsOf(arr) == {arr[i].id : i \in 1..Len(arr)}

distinctIds(arr) == \A i, j \in 1..Len(arr) : i # j => arr[i].id # arr[j].id

\* whether a list holds no element twice
noRepeat(list) == \A i, j \in 1..Len(list) : i # j => list[i] # list[j]

\* C1: in every reachable state no two students share an id and no two
\* courses share an id.
C1_UniqueIds == distinctIds(students) /\ distinctIds(courses)

\* C2, in every state: course c is among Student.courses(s) exactly when
\* student s is among Course.students(c).
C2_BothDirections ==
    \A i \in 1..Len(students), j \in 1..Len(courses) :
        includes(Student_courses(students[i]), courses[j])
            <=> includes(Course_students(courses[j]), students[i])

\* C2, unenrollStudent(studentId, courseId) returning the student: in the
\* store it leaves behind no course with that id is among the courses of a
\* student with that id, and no student with that id is among the students
\* of a course with that id.
C2_AfterUnenroll ==
    \A studentId \in StudentIdArgs, courseId \in CourseIdArgs :
        unenrollReturn(studentId, courseId) # Null =>
            LET after == unenrollResult(studentId, courseId)
            IN  \A i \in 1..Len(students), j \in 1..Len(courses) :
                    students[i].id = studentId /\ courses[j].id = courseId =>
                        /\ ~includes(Student_courses_in(students[i], courses, after), courses[j])
                        /\ ~includes(Course_students_in(courses[j], students, after), students[i])

\* C2: Student.courses and Course.students agree on every student and course
\* of every reachable state, and once unenrollStudent has returned the student
\* neither list contains the other record.
C2_Consistent == C2_BothDirections /\ C2_AfterUnenroll

\* reached: unenrollStudent returned a student who is left with no course
\* while another student is still enrolled in one
C2_Witness ==
    /\ last.op = "unenrollStudent"
    /\ last.ret # Null
    /\ Student_courses(last.ret) = <<>>
    /\ \E i \in 1..Len(students) : Student_courses(students[i]) # <<>>

\* the value a field holds after an update that was given arg for it
expected(prior, arg) == IF arg = Undefined THEN prior ELSE arg

\* every record but the one at position index is the same in both arrays
othersKept(before, after, index) ==
    /\ Len(after) = Len(before)
    /\ \A k \in 1..Len(before) : k # index => after[k] = before[k]

\* C3 for updateStudent
C3_UpdateStudent ==
    last'.op = "updateStudent" /\ last'.ret # Null =>
        \A id \in StudentIdArgs, name \in Optional(NameArgs), email \in Optional(EmailArgs),
           age \in Optional(AgeArgs), major \in Optional(MajorValues) :
            updateStudent(id, name, email, age, major) =>
                LET index == findIndex(students, id)
                    prior == students[index]
                    now == students'[index]
                IN  /\ now.id = prior.id
                    /\ now.name = expected(prior.name, name)
                    /\ now.email = expected(prior.email, email)
                    /\ now.age = expected(prior.age, age)
                    /\ now.major = expected(prior.major, major)
                    /\ DOMAIN now = DOMAIN prior
                    /\ last'.ret = now
                    /\ othersKept(students, students', index)
                    /\ UNCHANGED <<courses, enrollments>>

\* C3 for updateCourse
C3_UpdateCourse ==
    last'.op = "updateCourse" /\ last'.ret # Null =>
        \A id \in CourseIdArgs, title \in Optional(TitleArgs), code \in Optional(CodeArgs),
           credits \in Optional(CreditsArgs), instructor \in Optional(InstructorArgs) :
            updateCourse(id, title, code, credits, instructor) =>
                LET index == findIndex(courses, id)
                    prior == courses[index]
                    now == courses'[index]
                IN  /\ now.id = prior.id
                    /\ now.title = expected(prior.title, title)
                    /\ now.code = expected(prior.code, code)
                    /\ now.credits = expected(prior.credits, credits)
                    /\ now.instructor = expected(prior.instructor, instructor)
                    /\ DOMAIN now = DOMAIN prior
                    /\ last'.ret = now
                    /\ othersKept(courses, courses', index)
                    /\ UNCHANGED <<students, enrollments>>

\* C3: updateStudent (updateCourse) with an existing id sets each supplied
\* field of the first record with that id to the supplied value, null
\* included, and leaves its other fields, its id, every other record and the
\* rest of the store as they were.
C3_PartialUpdate == [][C3_UpdateStudent /\ C3_UpdateCourse]_vars

\* reached: updateStudent returned seed student "1" with a new name, a null
\* major, and the e-mail address and age it had
C3_Witness ==
    /\ last.op = "updateStudent"
    /\ last.ret # Null
    /\ last.ret.id = String(1)
    /\ last.ret.name \in NameArgs
    /\ last.ret.major = Null
    /\ last.ret.email = SeedStudents[1].email
    /\ last.ret.age = SeedStudents[1].age

\* C7 for updateStudent: a field supplied as null keeps its prior value
C7_UpdateStudent ==
    last'.op = "updateStudent" /\ last'.ret # Null =>
        \A id \in StudentIdArgs, name \in Optional(NameArgs), email \in Optional(EmailArgs),
           age \in Optional(AgeArgs), major \in Optional(MajorValues) :
            updateStudent(id, name, email, age, major) =>
                LET index == findIndex(students, id)
                    prior == students[index]
                    now == students'[index]
                IN  /\ name = Null /\ prior.name # Null => now.name = prior.name
                    /\ email = Null /\ prior.email # Null => now.email = prior.email
                    /\ age = Null /\ prior.age # Null => now.age = prior.age
                    /\ major = Null /\ prior.major # Null => now.major = prior.major

\* C7 for updateCourse
C7_UpdateCourse ==
    last'.op = "updateCourse" /\ last'.ret # Null =>
        \A id \in CourseIdArgs, title \in Optional(TitleArgs), code \in Optional(CodeArgs),
           credits \in Optional(CreditsArgs), instructor \in Optional(InstructorArgs) :
            updateCourse(id, title, code, credits, instructor) =>
                LET index == findIndex(courses, id)
                    prior == courses[index]
                    now == courses'[index]
                IN  /\ title = Null /\ prior.title # Null => now.title = prior.title
                    /\ code = Null /\ prior.code # Null => now.code = prior.code
                    /\ credits = Null /\ prior.credits # Null => now.credits = prior.credits
                    /\ instructor = Null /\ prior.instructor # Null =>
                           now.instructor = prior.instructor

\* C7: an update cannot null out a field: a field of an existing record that
\* is supplied as null keeps its prior non-null value.
C7_NoNullOut == [][C7_UpdateStudent /\ C7_UpdateCourse]_vars

\* C4: after deleteStudent(id) no student has that id, so getStudent(id)
\* finds none; the call returns false and keeps the number of students when
\* no student had the id, and returns true when one had.
C4_DeleteStudentStep ==
    last'.op = "deleteStudent" =>
        \A id \in StudentIdArgs :
            deleteStudent(id) =>
                /\ getStudent(id)' = Undefined
                /\ IF getStudent(id) = Undefined
                   THEN last'.ret = Bool(FALSE) /\ Len(students') = Len(students)
                   ELSE last'.ret = Bool(TRUE)

C4_DeleteStudent == [][C4_DeleteStudentStep]_vars

\* reached: deleteStudent returned true and left no student, both courses
\* still being there
C4_Witness ==
    /\ last.op = "deleteStudent"
    /\ last.ret = Bool(TRUE)
    /\ students = <<>>
    /\ Len(courses) = 2

\* C5, in every state: no enrollment entry holds a course id twice.
C5_NoDuplicates == \A studentId \in DOMAIN enrollments : noRepeat(enrollments[studentId])

\* C5, repeating a call: enrollStudent(studentId, courseId) applied to the
\* mapping that the same call leaves behind returns that mapping.
C5_Idempotent ==
    \A studentId \in StudentIdArgs, courseId \in CourseIdArgs :
        LET once == enrollResult(studentId, courseId)
        IN  enrollResult_of(once, studentId, courseId) = once

\* C5: every enrollment entry holds each course id at most once, and a second
\* enrollStudent with the same arguments changes nothing.
C5_EnrollOnce == C5_NoDuplicates /\ C5_Idempotent

\* reached: enrollStudent returned a student whose entry it had to extend:
\* seed student "2" now holds two course ids
C5_Witness ==
    /\ last.op = "enrollStudent"
    /\ last.ret # Null
    /\ last.ret.id = String(2)
    /\ last.ret = SeedStudents[2]
    /\ Len(enrollments[String(2)]) = 2

\* C6: every course id held by an enrollment entry is the id of a course in
\* the courses collection.
C6_NoDanglingCourse ==
    \A studentId \in DOMAIN enrollments :
        \A i \in 1..Len(enrollments[studentId]) :
            enrollments[studentId][i] \in idsOf(courses)

\* reached: deleteCourse has removed a course, addCourse has reused an id
\* still in use, and a student is enrolled under that id
C6_Witness ==
    /\ ~distinctIds(courses)
    /\ \E studentId \in DOMAIN enrollments :
          \E i \in 1..Len(courses) : includes(enrollments[studentId], courses[i].id)

\* C8, the outcome of enrollStudent(studentId, courseId): null and the same
\* enrollment mapping when no student has id studentId or no course has id
\* courseId, otherwise the student found under studentId.
C8_Outcome ==
    \A studentId \in StudentIdArgs, courseId \in CourseIdArgs :
        IF studentId \notin idsOf(students) \/ courseId \notin idsOf(courses)
        THEN /\ enrollReturn(studentId, courseId) = Null
             /\ enrollResult(studentId, courseId) = enrollments
        ELSE /\ enrollReturn(studentId, courseId) = getStudent(studentId)
             /\ enrollReturn(studentId, courseId).id = studentId

\* C8, the step: enrollStudent writes neither students nor courses, and
\* nothing at all when it returns null.
C8_Frame ==
    last'.op = "enrollStudent" =>
        /\ UNCHANGED <<students, courses>>
        /\ last'.ret = Null => UNCHANGED enrollments

\* C8: enrollStudent(studentId, courseId) returns null and changes nothing
\* when no student has id studentId or no course has id courseId; otherwise
\* it returns the student found under studentId.
C8_EnrollRequiresBoth == []C8_Outcome /\ [][C8_Frame]_vars

\* reached: enrollStudent returned null although both collections hold records
C8_Witness ==
    /\ last.op = "enrollStudent"
    /\ last.ret = Null
    /\ students # <<>>
    /\ courses # <<>>

\* C9: addStudent leaves the enrollment entry of every student already in the
\* collection as it was.
C9_AddStudentStep ==
    last'.op = "addStudent" =>
        \A i \in 1..Len(students) :
            /\ students[i].id \in DOMAIN enrollments'
            /\ enrollments'[students[i].id] = enrollments[students[i].id]

C9_AddKeepsEntries == [][C9_AddStudentStep]_vars

\* C10: the keys of the enrollment mapping are the ids of the students in the
\* collection, so neither enrollStudent nor unenrollStudent ever finds a
\* student without an entry.
C10_KeysAreStudentIds ==
    /\ DOMAIN enrollments = idsOf(students)
    /\ \A studentId \in StudentIdArgs :
          find(students, studentId) # Undefined => ~entryMissing(enrollments, studentId)

\* reached: deleteStudent removed a student and its entry, one entry is left
C10_Witness ==
    /\ last.op = "deleteStudent"
    /\ last.ret = Bool(TRUE)
    /\ Len(students) = 1
    /\ Cardinality(DOMAIN enrollments) = 1

====
